---- MODULE Spec2Model ----
(***************************************************************************)
(* Frame synchronisation and swapchain lifecycle of the deimos graphics    *)
(* devices.                                                                *)
(*                                                                         *)
(*   Spec          VulkanDevice (src/src/vulkan/device.rs) driven through  *)
(*                 the GPUDevice facade (src/src/gpu/device.rs) by         *)
(*                 Sample::update (src/src/sample.rs)                      *)
(*   SpecGfx       Device::update (src/src/gfx/device.rs)                  *)
(*                                                                         *)
(* One CPU thread runs the handlers; its position is pc.  A handler is cut *)
(* only where the code blocks (wait_for_fences, device_wait_idle), so that *)
(* GPU completions can interleave exactly there.  The GPU is a FIFO        *)
(* graphics queue (a fence signals in submission order) and one pending    *)
(* present request per frame slot.                                         *)
(***************************************************************************)
EXTENDS Integers, Sequences, FiniteSets, TLC

\* src/src/vulkan/api.rs:34
MAX_FRAMES_IN_FLIGHT == 2

\* bounds of the model
MinImages == 2
MaxImages == 3
MaxPasses == 2
MaxDestroys == 2

\* the scenario run: its number of frames, and the frame whose acquire
\* reports out of date
ScenarioFrames == 5
OutOfDateFrame == 3

VARIABLES
    variant,                \* which device implementation runs
    pc,                     \* position of the CPU thread
    frame_index,            \* VulkanDevice.frame_index / Device.frame
    swap_index,             \* VulkanDevice.swap_index / local index
    resized,                \* VulkanDevice.resized
    in_flight_fence,        \* sync.in_flight_fence (0 = null, k = fences_in_flight[k-1])
    textures_in_flight,     \* sync.textures_in_flight / sync.in_flight_textures
    fence_signaled,         \* state of sync.fences_in_flight[f]
    image_available,        \* pending signal of image_available_semaphores[f]
    render_finished,        \* pending signal of render_finished_semaphores[f]
    image_count,            \* data.swapchain.views.len()
    command_buffer_queues,  \* data.command_buffer_queues
    ctx_len,                \* length of the facade context's per-image arrays
    ctx_queues,             \* facade context.command_buffer_queues
    gfx_queue,              \* submissions in flight on the graphics queue
    present_pending,        \* present requests in flight, per frame slot
    frame_status,           \* history: how this frame's acquire ended
    passes,                 \* history: passes recorded in this frame
    prev_image_fence,       \* history: ImageFence[i] as found at this frame's bind
    last_bufs,              \* history: command buffers of this frame's queue_submit
    frame_submitted,        \* history: this frame's submit and present were issued
    destroyed_in_flight,    \* history: a teardown ran with work in flight
    rebuild_due,            \* history: a report that calls for a rebuild
    early_present,          \* history: a present ran before its frame's commands
    handle_swap_index,      \* swap_index in the device clone a client's queue/encoder holds (-1 = none held)
    ctx_on_swapchain,       \* the facade context's objects were built on the current swapchain
    present_result,         \* history: what this frame's queue_present_khr returned
    slots_rebuilt,          \* history: a rebuild touched the per-slot sync objects
    frame_no,               \* history: frames started so far (scenario runs)
    objects,                \* state of the native objects, by kind
    todo,                   \* API calls the running handler has yet to make
    destroy_log,            \* kinds destroyed by the handler run, in order
    invalid_calls,          \* kinds destroyed while not live
    destroy_calls,          \* times destroy has been called
    command_buffers,        \* per owner and image: the command buffer and its pool
    resize_pending,         \* history: a resize no completed rebuild has followed
    pass_open,              \* the command buffer is inside a render pass
    encoder_calls,          \* the calls made on a GPURenderPassEncoder
    caps,                   \* vk::SurfaceCapabilitiesKHR of the surface
    window_size,            \* window.inner_size()
    chosen                  \* image count and extent create_swapchain asks for

dev   == <<frame_index, swap_index, resized, in_flight_fence>>
swap  == <<image_count, command_buffer_queues, textures_in_flight>>
sems  == <<fence_signaled, image_available, render_finished>>
ctx   == <<ctx_len, ctx_queues>>
gpu   == <<gfx_queue, present_pending>>
frame == <<frame_status, passes, prev_image_fence, last_bufs, frame_submitted>>
hist  == <<destroyed_in_flight, rebuild_due, early_present>>
aux   == <<handle_swap_index, ctx_on_swapchain, present_result, slots_rebuilt,
           frame_no>>

life  == <<objects, todo, destroy_log, invalid_calls, destroy_calls,
           command_buffers>>

enc   == <<pass_open, encoder_calls>>
surf  == <<caps, window_size, chosen>>

vars == <<variant, pc, dev, swap, sems, ctx, gpu, frame, hist, aux, life,
          resize_pending, enc, surf>>

Slots == 0 .. (MAX_FRAMES_IN_FLIGHT - 1)
Images(n) == 0 .. (n - 1)
ImageCounts == MinImages .. MaxImages

NoPresent == [image |-> -1, wait |-> <<"none", 0>>]

\* vec![vec![]; n]
EmptyQueues(n) == [i \in Images(n) |-> <<>>]

----------------------------------------------------------------------------
(* Synchronisation primitives *)

\* a wait_for_fences that returns at once
FenceAlwaysReady(fence) == TRUE

\* wait_for_fences(&[fence]) returns
FenceReady(fence) == fence_signaled[fence - 1]

\* begin_frame without its wait on the slot fence
SlotFenceUnchecked == TRUE

\* begin_frame: wait_for_fences(&[self.sync.in_flight_fence])
SlotFenceReady == FenceReady(in_flight_fence)

\* begin_frame without its wait on the image fence
ImageFenceUnchecked(i) == TRUE

\* begin_frame: if !image_in_flight.is_null() { wait_for_fences(&[image_in_flight]) }
ImageFenceReady(i) ==
    IF textures_in_flight[i] = 0 THEN TRUE ELSE FenceReady(textures_in_flight[i])

SemSignaled(s) ==
    IF s[1] = "rf" THEN render_finished[s[2]] ELSE image_available[s[2]]

\* device_wait_idle(): every queue operation has completed
wait_until_idle ==
    /\ gfx_queue = <<>>
    /\ \A f \in Slots : present_pending[f] = NoPresent

\* end_frame: wait_semaphores(&[image_available_semaphores[frame_index]])
SubmitWaitSemaphore(f) == <<"ia", f>>

\* end_frame: signal_semaphores(&[render_finished_semaphores[frame_index]])
SubmitSignalSemaphore(f) == <<"rf", f>>

\* a present that waits on the acquire semaphore instead
PresentWaitsOnAcquire(f) == <<"ia", f>>

\* end_frame: PresentInfoKHR .wait_semaphores(signal_semaphores)
PresentWaitSemaphore(f) == SubmitSignalSemaphore(f)

\* an end_frame that keeps the slot
SameSlot(f) == f

\* an end_frame that counts frames without wrapping
AdvanceUnbounded(f) == f + 1

\* end_frame: frame_index = (frame_index + 1) % MAX_FRAMES_IN_FLIGHT
advance(f) == (f + 1) % MAX_FRAMES_IN_FLIGHT

\* a rebuild that leaves the table at its old length
TableNotResized(n) == textures_in_flight

\* textures_in_flight.resize(n, vk::Fence::null())
ResizeImageFences(n) ==
    [i \in Images(n) |-> IF i \in DOMAIN textures_in_flight
                         THEN textures_in_flight[i] ELSE 0]

----------------------------------------------------------------------------
(* Construction *)

\* no render pass encoder is followed outside SpecEncoder
EncoderUntracked ==
    /\ pass_open = FALSE
    /\ encoder_calls = <<>>

\* the surface's capabilities are followed in SpecSurface only
SurfaceUntracked ==
    /\ caps = <<>>
    /\ window_size = <<>>
    /\ chosen = <<>>

\* the native objects are followed in SpecLife only
LifeUntracked ==
    /\ objects = <<>>
    /\ todo = <<>>
    /\ destroy_log = <<>>
    /\ invalid_calls = {}
    /\ destroy_calls = 0
    /\ command_buffers = <<>>

\* a create that leaves the slot fences unsignaled
FencesCreatedUnsignaled == [f \in Slots |-> FALSE]

\* VulkanDeviceSync::create: every fence of fences_in_flight is created with
\* vk::FenceCreateFlags::SIGNALED
FencesCreated == [f \in Slots |-> TRUE]

\* VulkanDevice::create with VulkanDeviceSync::create, on n swapchain images
InitDevice(n) ==
    /\ pc = "idle"
    /\ frame_index = 0
    /\ swap_index = 0
    /\ resized = FALSE
    /\ in_flight_fence = 0
    /\ textures_in_flight = [i \in Images(n) |-> 0]
    /\ fence_signaled = FencesCreated
    /\ image_available = [f \in Slots |-> FALSE]
    /\ render_finished = [f \in Slots |-> FALSE]
    /\ image_count = n
    /\ command_buffer_queues = EmptyQueues(n)
    /\ gfx_queue = <<>>
    /\ present_pending = [f \in Slots |-> NoPresent]
    /\ frame_status = "none"
    /\ passes = 0
    /\ prev_image_fence = 0
    /\ last_bufs = <<>>
    /\ frame_submitted = FALSE
    /\ destroyed_in_flight = FALSE
    /\ rebuild_due = "none"
    /\ early_present = FALSE
    /\ handle_swap_index = -1
    /\ present_result = "none"
    /\ slots_rebuilt = FALSE
    /\ frame_no = 0
    /\ resize_pending = FALSE

\* GPUDevice::create: data = GPUDeviceData::default(), a null context
Init ==
    /\ variant = "vulkan"
    /\ \E n \in ImageCounts : InitDevice(n)
    /\ ctx_len = 0
    /\ ctx_queues = EmptyQueues(0)
    /\ ctx_on_swapchain = FALSE
    /\ LifeUntracked
    /\ EncoderUntracked
    /\ SurfaceUntracked

\* history of a frame that starts
FrameStarts ==
    /\ frame_status' = "none"
    /\ passes' = 0
    /\ prev_image_fence' = 0
    /\ last_bufs' = <<>>
    /\ frame_submitted' = FALSE
    /\ present_result' = "none"

----------------------------------------------------------------------------
(* Swapchain rebuild *)

\* destroy_swapchain: frees the per-image objects; harmful with work in flight
destroy_swapchain ==
    destroyed_in_flight' = (destroyed_in_flight \/ gfx_queue # <<>>)

\* a rebuild that also destroys and recreates the per-slot sync objects
RecreateWithSlots(n) ==
    /\ destroy_swapchain
    /\ image_count' = n
    /\ command_buffer_queues' = EmptyQueues(n)
    /\ textures_in_flight' = ResizeImageFences(n)
    /\ rebuild_due' = "none"
    /\ resize_pending' = FALSE
    /\ slots_rebuilt' = TRUE

\* VulkanDevice::recreate_swapchain after its wait_until_idle, with n new
\* images; the fences and semaphores of VulkanDeviceSync are left alone
recreate_swapchain(n) ==
    /\ destroy_swapchain
    /\ image_count' = n
    /\ command_buffer_queues' = EmptyQueues(n)
    /\ textures_in_flight' = ResizeImageFences(n)
    /\ rebuild_due' = "none"
    /\ resize_pending' = FALSE
    /\ UNCHANGED slots_rebuilt

----------------------------------------------------------------------------
(* The event loop and Sample::update *)

\* Sample::resize -> GPUDevice::resized(true)
Resize ==
    /\ pc = "idle"
    /\ ~resized
    /\ resized' = TRUE
    /\ resize_pending' = TRUE
    /\ UNCHANGED <<variant, enc, surf, life, aux, pc, frame_index, swap_index, in_flight_fence,
                   swap, sems, ctx, gpu, frame, hist>>

\* Sample::update, !is_valid branch: GPUDevice::reset -> VulkanDevice::reset,
\* up to the wait_until_idle of recreate_swapchain
UpdateReset ==
    /\ pc = "idle"
    /\ resized
    /\ resized' = FALSE
    /\ pc' = "reset_wait"
    /\ UNCHANGED <<variant, enc, surf, life, resize_pending, aux, frame_index, swap_index, in_flight_fence,
                   swap, sems, ctx, gpu, frame, hist>>

\* GPUDevice::reset continued: recreate_swapchain, then context.reset
\* (GPUDeviceContext::destroy + recreate against the new swapchain)
ResetComplete ==
    /\ pc = "reset_wait"
    /\ wait_until_idle
    /\ \E n \in ImageCounts :
          /\ recreate_swapchain(n)
          /\ ctx_len' = n
          /\ ctx_queues' = EmptyQueues(n)
    /\ pc' = "idle"
    /\ ctx_on_swapchain' = TRUE
    /\ UNCHANGED <<variant, enc, surf, life, handle_swap_index, present_result, frame_no,
                   dev, sems, gpu, frame, early_present>>

----------------------------------------------------------------------------
(* VulkanDevice::begin_frame *)

\* Sample::update, valid branch: begin_frame up to its first wait_for_fences
BeginFrame ==
    /\ pc = "idle"
    /\ ~resized
    /\ in_flight_fence' = frame_index + 1
    /\ FrameStarts
    /\ pc' = "bf_fence"
    /\ UNCHANGED <<variant, enc, surf, life, resize_pending, handle_swap_index, ctx_on_swapchain,
                   slots_rebuilt, frame_no, frame_index, swap_index, resized,
                   swap, sems, ctx, gpu, hist>>

\* acquire_next_image_khr returns Ok((i, code)); the code is dropped
AcquireOk ==
    /\ pc = "bf_fence"
    /\ SlotFenceReady
    /\ \E i \in Images(image_count), code \in {"success", "suboptimal"} :
          /\ swap_index' = i
          /\ rebuild_due' = IF code = "suboptimal" /\ rebuild_due = "none"
                            THEN "acquire_suboptimal" ELSE rebuild_due
    /\ image_available' = [image_available EXCEPT ![frame_index] = TRUE]
    /\ frame_status' = "acquired"
    /\ pc' = "bf_image"
    /\ UNCHANGED <<variant, enc, surf, life, resize_pending, aux, frame_index, resized, in_flight_fence, swap,
                   fence_signaled, render_finished, ctx, gpu, passes,
                   prev_image_fence, last_bufs, frame_submitted,
                   destroyed_in_flight, early_present>>

\* a begin_frame that has no match arm for OUT_OF_DATE_KHR
AcquireOutOfDateFails ==
    /\ pc = "bf_fence"
    /\ SlotFenceReady
    /\ frame_status' = "out_of_date"
    /\ pc' = "failed"
    /\ UNCHANGED <<variant, enc, surf, life, resize_pending, aux, dev, swap, sems, ctx, gpu, passes,
                   prev_image_fence, last_bufs, frame_submitted, hist>>

\* acquire_next_image_khr returns Err(OUT_OF_DATE_KHR):
\* return self.recreate_swapchain(window), up to its wait_until_idle
AcquireOutOfDate ==
    /\ pc = "bf_fence"
    /\ SlotFenceReady
    /\ frame_status' = "out_of_date"
    /\ rebuild_due' = "required"
    /\ pc' = "bf_recreate"
    /\ UNCHANGED <<variant, enc, surf, life, resize_pending, aux, dev, swap, sems, ctx, gpu, passes,
                   prev_image_fence, last_bufs, frame_submitted,
                   destroyed_in_flight, early_present>>

\* a begin_frame that answers every acquire error with the rebuild
AcquireErrorRebuilds ==
    /\ pc = "bf_fence"
    /\ SlotFenceReady
    /\ frame_status' = "error"
    /\ pc' = "bf_recreate"
    /\ UNCHANGED <<variant, enc, surf, life, resize_pending, aux, dev, swap, sems, ctx, gpu, passes,
                   prev_image_fence, last_bufs, frame_submitted, hist>>

\* acquire_next_image_khr returns any other error: Err(anyhow!(e))
AcquireError ==
    /\ pc = "bf_fence"
    /\ SlotFenceReady
    /\ frame_status' = "error"
    /\ pc' = "failed"
    /\ UNCHANGED <<variant, enc, surf, life, resize_pending, aux, dev, swap, sems, ctx, gpu, passes,
                   prev_image_fence, last_bufs, frame_submitted, hist>>

\* wait_for_fences(...)? fails on the slot fence or on the image fence
\* (device loss): the error is returned
FenceWaitError ==
    /\ pc \in {"bf_fence", "bf_image"}
    /\ frame_status' = "error"
    /\ pc' = "failed"
    /\ UNCHANGED <<variant, enc, surf, life, resize_pending, aux, dev, swap, sems, ctx, gpu, passes,
                   prev_image_fence, last_bufs, frame_submitted, hist>>

\* a begin_frame that resets the slot fence as soon as it has bound the image
BindImageResetsFence ==
    /\ pc = "bf_image"
    /\ ImageFenceReady(swap_index)
    /\ prev_image_fence' = textures_in_flight[swap_index]
    /\ textures_in_flight' =
          [textures_in_flight EXCEPT ![swap_index] = in_flight_fence]
    /\ fence_signaled' = [fence_signaled EXCEPT ![in_flight_fence - 1] = FALSE]
    /\ pc' = "recording"
    /\ UNCHANGED <<variant, enc, surf, life, resize_pending, aux, dev, image_count,
                   command_buffer_queues, image_available, render_finished, ctx,
                   gpu, frame_status, passes, last_bufs, frame_submitted, hist>>

\* begin_frame after a successful acquire: wait on textures_in_flight[swap_index]
\* when set, then textures_in_flight[swap_index] = in_flight_fence; Ok(())
BindImage ==
    /\ pc = "bf_image"
    /\ ImageFenceReady(swap_index)
    /\ prev_image_fence' = textures_in_flight[swap_index]
    /\ textures_in_flight' =
          [textures_in_flight EXCEPT ![swap_index] = in_flight_fence]
    /\ pc' = "recording"
    /\ UNCHANGED <<variant, enc, surf, life, resize_pending, aux, dev, image_count, command_buffer_queues, sems, ctx,
                   gpu, frame_status, passes, last_bufs, frame_submitted, hist>>

\* the out-of-date path continued: recreate_swapchain returns Ok(()), which
\* begin_frame returns to Sample::update, and the frame goes on
BeginFrameRecreate ==
    /\ pc = "bf_recreate"
    /\ wait_until_idle
    /\ \E n \in ImageCounts : recreate_swapchain(n)
    /\ pc' = "recording"
    /\ ctx_on_swapchain' = FALSE
    /\ UNCHANGED <<variant, enc, surf, life, handle_swap_index, present_result, frame_no,
                   dev, sems, ctx, gpu, frame, early_present>>

\* recreate_swapchain fails after its teardown (a create_* call returns Err,
\* propagated with ? through reset, begin_frame or end_frame)
RecreateFails ==
    /\ pc \in {"reset_wait", "bf_recreate", "ef_recreate"}
    /\ wait_until_idle
    /\ destroy_swapchain
    /\ pc' = "rebuild_failed"
    /\ ctx_on_swapchain' = FALSE
    /\ UNCHANGED <<variant, enc, surf, life, resize_pending, handle_swap_index, present_result, frame_no, slots_rebuilt,
                   dev, swap, sems, ctx, gpu, frame, rebuild_due,
                   early_present>>

----------------------------------------------------------------------------
(* Recording through the facade: Sample::render_contents *)

\* an index into a per-image Vec panics when out of range
Panic ==
    /\ pc' = "panicked"
    /\ UNCHANGED <<variant, enc, surf, life, resize_pending, aux, dev, swap, sems, ctx, gpu, frame, hist>>

\* GPUQueue::submit: pushes when swap_index < context.command_buffer_queues.len()
QueueSubmit(queues, i, bufs) ==
    IF i < ctx_len THEN [queues EXCEPT ![i] = queues[i] \o bufs] ELSE queues

\* one pass through a queue and an encoder whose device clone holds swap
\* index h: GPUCommandEncoder::begin_render_pass (resets and begins
\* context.command_buffers[h]), the encoder calls, end, finish and
\* GPUQueue::submit of the finished buffer
RecordWith(h) ==
    IF h >= ctx_len
    THEN Panic
    ELSE /\ ctx_queues' = QueueSubmit(ctx_queues, h, << <<"ctx", h>> >>)
         /\ passes' = passes + 1
         /\ UNCHANGED <<variant, enc, surf, life, resize_pending, aux, pc, dev, swap, sems, ctx_len, gpu,
                        frame_status, prev_image_fence, last_bufs,
                        frame_submitted, hist>>

\* Sample::render_contents: create_queue and create_command_encoder clone the
\* device as it is now, one pass is recorded, and the objects are dropped
RecordPass ==
    /\ pc = "recording"
    /\ passes < MaxPasses
    /\ RecordWith(swap_index)

----------------------------------------------------------------------------
(* GPUDevice::end_frame and VulkanDevice::end_frame *)

PresentResults == {"success", "suboptimal", "out_of_date", "error"}

\* a hand-over that pushes nothing
NoHandOver(queue, bufs) == queue

\* VulkanDevice::submit_command_buffers: push each onto the queue of swap_index
submit_command_buffers(queue, bufs) == queue \o bufs

\* VulkanDevice::clear_frame: records the clear pass into
\* data.command_buffers[swap_index] and pushes it onto the queue
clear_frame(queue, i) == Append(queue, <<"dev", i>>)

\* an end_frame without the default clear
PendingWithoutClear(queue, i) == queue

\* end_frame: if command_buffer_queues[swap_index].len() == 0 { clear_frame }
PendingAtSubmit(queue, i) == IF Len(queue) = 0 THEN clear_frame(queue, i) ELSE queue

\* the vk::SubmitInfo and fence handed to queue_submit
Submission(bufs) ==
    [fence    |-> in_flight_fence,
     wait     |-> SubmitWaitSemaphore(frame_index),
     signal   |-> SubmitSignalSemaphore(frame_index),
     image    |-> swap_index,
     bufs     |-> bufs,
     acquired |-> (frame_status = "acquired"),
     sem_ok   |-> image_available[frame_index]]

\* the vk::PresentInfoKHR handed to queue_present_khr
PresentRequest == [image |-> swap_index, wait |-> PresentWaitSemaphore(frame_index)]

\* reset_fences, queue_submit and queue_present_khr of one frame
SubmitAndPresent(bufs) ==
    /\ fence_signaled' = [fence_signaled EXCEPT ![in_flight_fence - 1] = FALSE]
    /\ gfx_queue' = Append(gfx_queue, Submission(bufs))
    /\ present_pending' = [present_pending EXCEPT ![frame_index] = PresentRequest]
    /\ render_finished' =
          IF present_pending[frame_index] # NoPresent
          THEN [render_finished EXCEPT ![frame_index] = FALSE]
          ELSE render_finished
    /\ last_bufs' = bufs
    /\ frame_submitted' = TRUE

\* a present result that reports the swapchain stale
Stale(result) == result \in {"suboptimal", "out_of_date"}

\* an end_frame that overlooks SUBOPTIMAL_KHR
ChangedOnlyOutOfDate(result) == result = "out_of_date"

\* end_frame: changed = SUBOPTIMAL_KHR or OUT_OF_DATE_KHR
Changed(result) == result \in {"suboptimal", "out_of_date"}

\* end_frame: if self.resized || changed
RebuildAtEnd(changed) == resized \/ changed

\* GPUDevice::end_frame: submit_command_buffers(context queue), then
\* VulkanDevice::end_frame: default clear, reset fence, queue_submit,
\* queue_present_khr, clear the queue, advance frame_index, and either return
\* (then GPUDevice::end_frame clears the context queue) or enter
\* recreate_swapchain up to its wait_until_idle
EndFrame ==
    /\ pc = "recording"
    /\ IF swap_index >= ctx_len \/ swap_index >= image_count
       THEN Panic
       ELSE \E result \in PresentResults :
            LET handed  == submit_command_buffers(
                               command_buffer_queues[swap_index],
                               ctx_queues[swap_index])
                pending == PendingAtSubmit(handed, swap_index)
                submit  == Len(pending) > 0
                changed == submit /\ Changed(result)
            IN  /\ IF submit
                   THEN /\ SubmitAndPresent(pending)
                        /\ command_buffer_queues' =
                              [command_buffer_queues EXCEPT ![swap_index] = <<>>]
                        /\ frame_index' = advance(frame_index)
                   ELSE /\ command_buffer_queues' =
                              [command_buffer_queues EXCEPT ![swap_index] = pending]
                        /\ UNCHANGED <<fence_signaled, gfx_queue, present_pending,
                                       render_finished, last_bufs,
                                       frame_submitted, frame_index>>
                /\ rebuild_due' = IF resized \/ (submit /\ Stale(result))
                                  THEN "required" ELSE rebuild_due
                /\ IF RebuildAtEnd(changed)
                   THEN /\ resized' = FALSE
                        /\ pc' = "ef_recreate"
                        /\ UNCHANGED ctx_queues
                   ELSE /\ pc' = "idle"
                        /\ ctx_queues' = [ctx_queues EXCEPT ![swap_index] = <<>>]
                        /\ UNCHANGED resized
                /\ present_result' = IF submit THEN result ELSE present_result
                /\ UNCHANGED <<variant, enc, surf, life, resize_pending, handle_swap_index, ctx_on_swapchain,
                               slots_rebuilt, frame_no,
                               swap_index, in_flight_fence,
                               textures_in_flight, image_available, image_count,
                               ctx_len, frame_status, passes, prev_image_fence,
                               destroyed_in_flight, early_present>>

\* end_frame continued: recreate_swapchain, Ok(()); GPUDevice::end_frame then
\* clears the context queue of swap_index
EndFrameRecreate ==
    /\ pc = "ef_recreate"
    /\ wait_until_idle
    /\ \E n \in ImageCounts : recreate_swapchain(n)
    /\ ctx_queues' = [ctx_queues EXCEPT ![swap_index] = <<>>]
    /\ pc' = "idle"
    /\ ctx_on_swapchain' = FALSE
    /\ UNCHANGED <<variant, enc, surf, life, handle_swap_index, present_result, frame_no,
                   dev, sems, ctx_len, gpu, frame, early_present>>

----------------------------------------------------------------------------
(* The GPU timeline *)

\* a queue that runs the oldest submission and leaves its fence unsignaled
GpuDropsFence ==
    /\ gfx_queue # <<>>
    /\ LET s == Head(gfx_queue)
       IN  /\ image_available' = [image_available EXCEPT ![s.wait[2]] = FALSE]
           /\ render_finished' = [render_finished EXCEPT ![s.signal[2]] = TRUE]
    /\ gfx_queue' = Tail(gfx_queue)
    /\ UNCHANGED <<variant, enc, surf, life, resize_pending, aux, pc, dev, swap, ctx, fence_signaled,
                   present_pending, frame, hist>>

\* the oldest submission completes: its wait semaphore is consumed, its
\* signal semaphore and its fence are signaled
\* (a submission whose wait semaphore no acquire signals is invalid usage:
\* it may hang, which is this action never taken, or run, which is this action)
GpuComplete ==
    /\ gfx_queue # <<>>
    /\ LET s == Head(gfx_queue)
       IN  /\ fence_signaled' = [fence_signaled EXCEPT ![s.fence - 1] = TRUE]
           /\ image_available' = [image_available EXCEPT ![s.wait[2]] = FALSE]
           /\ render_finished' = [render_finished EXCEPT ![s.signal[2]] = TRUE]
    /\ gfx_queue' = Tail(gfx_queue)
    /\ UNCHANGED <<variant, enc, surf, life, resize_pending, aux, pc, dev, swap, ctx, present_pending, frame, hist>>

\* the present queue executes the request of slot f once its wait semaphore
\* is signaled
PresentExecute ==
    \E f \in Slots :
       /\ present_pending[f] # NoPresent
       /\ SemSignaled(present_pending[f].wait)
       /\ early_present' =
             ( \/ early_present
               \/ \E k \in DOMAIN gfx_queue :
                     gfx_queue[k].signal = SubmitSignalSemaphore(f) )
       /\ IF present_pending[f].wait[1] = "rf"
          THEN /\ render_finished' =
                     [render_finished EXCEPT ![present_pending[f].wait[2]] = FALSE]
               /\ UNCHANGED image_available
          ELSE /\ image_available' =
                     [image_available EXCEPT ![present_pending[f].wait[2]] = FALSE]
               /\ UNCHANGED render_finished
       /\ present_pending' = [present_pending EXCEPT ![f] = NoPresent]
       /\ UNCHANGED <<variant, enc, surf, life, resize_pending, aux, pc, dev, swap, fence_signaled, ctx, gfx_queue,
                      frame, destroyed_in_flight, rebuild_due>>

----------------------------------------------------------------------------
(* Shutdown: Sample::destroy -> GPUDevice::destroy *)

\* GPUDeviceContext::destroy up to its wait_until_idle
Destroy ==
    /\ pc = "idle"
    /\ pc' = "destroy_wait"
    /\ UNCHANGED <<variant, enc, surf, life, resize_pending, aux, dev, swap, sems, ctx, gpu, frame, hist>>

\* GPUDeviceContext::destroy continued, then VulkanDevice::destroy:
\* wait_until_idle, destroy_swapchain, sync.destroy, ..., destroy_instance
DestroyComplete ==
    /\ pc = "destroy_wait"
    /\ wait_until_idle
    /\ destroy_swapchain
    /\ ctx_len' = 0
    /\ ctx_queues' = EmptyQueues(0)
    /\ pc' = "destroyed"
    /\ ctx_on_swapchain' = FALSE
    /\ UNCHANGED <<variant, enc, surf, life, resize_pending, handle_swap_index, present_result, frame_no, slots_rebuilt,
                   dev, swap, sems, gpu, frame, rebuild_due,
                   early_present>>

----------------------------------------------------------------------------
Next ==
    \/ Resize
    \/ UpdateReset
    \/ ResetComplete
    \/ BeginFrame
    \/ AcquireOk
    \/ AcquireOutOfDate
    \/ AcquireError
    \/ FenceWaitError
    \/ BindImage
    \/ BeginFrameRecreate
    \/ RecreateFails
    \/ RecordPass
    \/ EndFrame
    \/ EndFrameRecreate
    \/ GpuComplete
    \/ PresentExecute
    \/ Destroy
    \/ DestroyComplete

Spec == Init /\ [][Next]_vars

----------------------------------------------------------------------------
(* Device::update of src/src/gfx/device.rs.  The device keeps no facade    *)
(* context and no command-buffer queues; sync.in_flight_textures is sized  *)
(* once, at construction.                                                  *)

InitGfx ==
    /\ variant = "gfx"
    /\ \E n \in ImageCounts : InitDevice(n)
    /\ ctx_len = 0
    /\ ctx_queues = EmptyQueues(0)
    /\ ctx_on_swapchain = FALSE
    /\ LifeUntracked
    /\ EncoderUntracked
    /\ SurfaceUntracked

\* recontruct_swapchain: destroy_swapchain, then construct_swapchain with n images
recontruct_swapchain(n) ==
    /\ destroy_swapchain
    /\ image_count' = n
    /\ rebuild_due' = "none"
    /\ resize_pending' = FALSE

\* update up to wait_for_fences(&[in_flight_fence])
GfxUpdate ==
    /\ pc = "idle"
    /\ in_flight_fence' = frame_index + 1
    /\ FrameStarts
    /\ pc' = "u_fence"
    /\ UNCHANGED <<variant, enc, surf, life, resize_pending, handle_swap_index, ctx_on_swapchain,
                   slots_rebuilt, frame_no, frame_index, swap_index, resized,
                   swap, sems, ctx, gpu, hist>>

\* acquire_next_image_khr returns Ok((index, _)); in_flight_textures[index] is read
GfxAcquireOk ==
    /\ pc = "u_fence"
    /\ SlotFenceReady
    /\ \E i \in Images(image_count), code \in {"success", "suboptimal"} :
          IF i \notin DOMAIN textures_in_flight
          THEN Panic
          ELSE /\ swap_index' = i
               /\ rebuild_due' = IF code = "suboptimal" /\ rebuild_due = "none"
                                 THEN "acquire_suboptimal" ELSE rebuild_due
               /\ image_available' = [image_available EXCEPT ![frame_index] = TRUE]
               /\ frame_status' = "acquired"
               /\ pc' = "u_image"
               /\ UNCHANGED <<variant, enc, surf, life, resize_pending, aux, frame_index, resized, in_flight_fence,
                              swap, fence_signaled, render_finished, ctx, gpu,
                              passes, prev_image_fence, last_bufs,
                              frame_submitted, destroyed_in_flight,
                              early_present>>

\* acquire_next_image_khr returns Err(OUT_OF_DATE_KHR):
\* return recontruct_swapchain(...), which waits for nothing
GfxAcquireOutOfDate ==
    /\ pc = "u_fence"
    /\ SlotFenceReady
    /\ \E n \in ImageCounts : recontruct_swapchain(n)
    /\ frame_status' = "out_of_date"
    /\ pc' = "idle"
    /\ UNCHANGED <<variant, enc, surf, life, aux, dev, command_buffer_queues, textures_in_flight,
                   sems, ctx, gpu, passes, prev_image_fence, last_bufs,
                   frame_submitted, early_present>>

\* acquire_next_image_khr returns any other error
GfxAcquireError ==
    /\ pc = "u_fence"
    /\ SlotFenceReady
    /\ pc' = "failed"
    /\ UNCHANGED <<variant, enc, surf, life, resize_pending, aux, dev, swap, sems, ctx, gpu, frame, hist>>

\* update after the acquire: wait on in_flight_textures[index] when set, bind
\* it, reset the fence, queue_submit, queue_present_khr, and either enter the
\* rebuild, return the present error, or advance the frame counter
GfxSubmit ==
    /\ pc = "u_image"
    /\ ImageFenceReady(swap_index)
    /\ prev_image_fence' = textures_in_flight[swap_index]
    /\ textures_in_flight' =
          [textures_in_flight EXCEPT ![swap_index] = in_flight_fence]
    /\ SubmitAndPresent(<< <<"primary", swap_index>> >>)
    /\ \E result \in PresentResults :
          /\ present_result' = result
          /\ rebuild_due' = IF resized \/ Stale(result)
                            THEN "required" ELSE rebuild_due
          /\ IF RebuildAtEnd(Changed(result))
             THEN /\ resized' = FALSE
                  /\ pc' = "u_recreate"
                  /\ UNCHANGED frame_index
             ELSE IF result = "error"
             THEN /\ pc' = "failed"
                  /\ UNCHANGED <<resized, frame_index>>
             ELSE /\ frame_index' = advance(frame_index)
                  /\ pc' = "idle"
                  /\ UNCHANGED resized
    /\ UNCHANGED <<variant, enc, surf, life, resize_pending, handle_swap_index, ctx_on_swapchain,
                   slots_rebuilt, frame_no, swap_index, in_flight_fence,
                   image_count,
                   command_buffer_queues, image_available, ctx, frame_status,
                   passes, destroyed_in_flight, early_present>>

\* update continued: self.recreate_swapchain(window), a method this device
\* does not define; modelled as the rebuild the specification describes
\* (wait idle, tear down, rebuild), then the frame counter advances
GfxRecreateAtEnd ==
    /\ pc = "u_recreate"
    /\ wait_until_idle
    /\ \E n \in ImageCounts : recontruct_swapchain(n)
    /\ frame_index' = advance(frame_index)
    /\ pc' = "idle"
    /\ UNCHANGED <<variant, enc, surf, life, aux, swap_index, resized, in_flight_fence,
                   command_buffer_queues, textures_in_flight, sems, ctx, gpu,
                   frame, early_present>>

\* Device::destroy up to its device_wait_idle
GfxDestroy ==
    /\ pc = "idle"
    /\ pc' = "g_destroy_wait"
    /\ UNCHANGED <<variant, enc, surf, life, resize_pending, aux, dev, swap, sems, ctx, gpu, frame, hist>>

\* Device::destroy continued: the sync objects, the swapchain, the device
GfxDestroyComplete ==
    /\ pc = "g_destroy_wait"
    /\ wait_until_idle
    /\ destroy_swapchain
    /\ pc' = "destroyed"
    /\ UNCHANGED <<variant, enc, surf, life, resize_pending, aux, dev, swap, sems, ctx, gpu, frame, rebuild_due,
                   early_present>>

NextGfx ==
    \/ GfxUpdate
    \/ GfxAcquireOk
    \/ GfxAcquireOutOfDate
    \/ GfxAcquireError
    \/ GfxSubmit
    \/ GfxRecreateAtEnd
    \/ GfxDestroy
    \/ GfxDestroyComplete
    \/ GpuComplete
    \/ PresentExecute

SpecGfx == InitGfx /\ [][NextGfx]_vars

----------------------------------------------------------------------------
(* A client of GPUDevice that creates its GPUQueue and GPUCommandEncoder   *)
(* once and keeps them, instead of creating them in every render_contents. *)

\* GPUDevice::create_queue and create_command_encoder: device: self.handle.clone()
CreateHandles ==
    /\ pc \in {"idle", "recording"}
    /\ handle_swap_index = -1
    /\ handle_swap_index' = swap_index
    /\ UNCHANGED <<variant, enc, surf, life, resize_pending, ctx_on_swapchain, present_result, slots_rebuilt,
                   frame_no, pc, dev, swap, sems, ctx, gpu, frame, hist>>

\* a pass recorded and submitted through the kept objects
ClientRecordPass ==
    /\ pc = "recording"
    /\ handle_swap_index # -1
    /\ passes < MaxPasses
    /\ handle_swap_index < ctx_len =>
          Len(ctx_queues[handle_swap_index]) < MaxPasses
    /\ RecordWith(handle_swap_index)

NextClient ==
    \/ Resize
    \/ UpdateReset
    \/ ResetComplete
    \/ BeginFrame
    \/ AcquireOk
    \/ AcquireOutOfDate
    \/ AcquireError
    \/ FenceWaitError
    \/ BindImage
    \/ BeginFrameRecreate
    \/ RecreateFails
    \/ CreateHandles
    \/ ClientRecordPass
    \/ EndFrame
    \/ EndFrameRecreate
    \/ GpuComplete
    \/ PresentExecute

SpecClient == Init /\ [][NextClient]_vars

----------------------------------------------------------------------------
(* A scenario run of Sample::update: after the first reset, ScenarioFrames *)
(* frames are driven; the acquire of frame OutOfDateFrame reports out of   *)
(* date, every other acquire and every present reports success.           *)

\* the state after Sample's first update has run GPUDevice::reset
InitScenario ==
    /\ variant = "scenario"
    /\ \E n \in ImageCounts :
          /\ InitDevice(n)
          /\ ctx_len = n
          /\ ctx_queues = EmptyQueues(n)
    /\ ctx_on_swapchain = TRUE
    /\ LifeUntracked
    /\ EncoderUntracked
    /\ SurfaceUntracked

\* Sample::update, valid branch, for the next frame of the run
ScenarioBeginFrame ==
    /\ pc = "idle"
    /\ frame_no < ScenarioFrames
    /\ frame_no' = frame_no + 1
    /\ in_flight_fence' = frame_index + 1
    /\ FrameStarts
    /\ pc' = "bf_fence"
    /\ UNCHANGED <<variant, enc, surf, life, resize_pending, handle_swap_index, ctx_on_swapchain,
                   slots_rebuilt, frame_index, swap_index, resized,
                   swap, sems, ctx, gpu, hist>>

ScenarioAcquireOk ==
    /\ frame_no # OutOfDateFrame
    /\ AcquireOk
    /\ rebuild_due' = rebuild_due

ScenarioAcquireOutOfDate ==
    /\ frame_no = OutOfDateFrame
    /\ AcquireOutOfDate

ScenarioEndFrame ==
    /\ EndFrame
    /\ pc' # "panicked" => present_result' = "success"

\* the graphics queue runs its oldest submission, whose wait semaphore has a
\* signal pending
GpuExecutes ==
    /\ gfx_queue # <<>>
    /\ SemSignaled(Head(gfx_queue).wait)
    /\ GpuComplete

CpuStep ==
    \/ ScenarioBeginFrame
    \/ ScenarioAcquireOk
    \/ ScenarioAcquireOutOfDate
    \/ BindImage
    \/ BeginFrameRecreate
    \/ RecordPass
    \/ ScenarioEndFrame

NextScenario ==
    \/ ScenarioBeginFrame
    \/ ScenarioAcquireOk
    \/ ScenarioAcquireOutOfDate
    \/ BindImage
    \/ BeginFrameRecreate
    \/ RecordPass
    \/ ScenarioEndFrame
    \/ GpuComplete
    \/ PresentExecute

\* the CPU thread keeps stepping while it can; the GPU runs every submission
\* and every present whose wait semaphore is signaled
SpecScenario ==
    /\ InitScenario
    /\ [][NextScenario]_vars
    /\ WF_vars(CpuStep)
    /\ WF_vars(GpuExecutes)
    /\ WF_vars(PresentExecute)

----------------------------------------------------------------------------
(* A steady run of Sample::update: after the first reset, ScenarioFrames   *)
(* frames are driven with no resize; every acquire and every present       *)
(* reports success.                                                        *)

InitSteady ==
    /\ variant = "steady"
    /\ \E n \in ImageCounts :
          /\ InitDevice(n)
          /\ ctx_len = n
          /\ ctx_queues = EmptyQueues(n)
    /\ ctx_on_swapchain = TRUE
    /\ LifeUntracked
    /\ EncoderUntracked
    /\ SurfaceUntracked

SteadyAcquireOk ==
    /\ AcquireOk
    /\ rebuild_due' = rebuild_due

SteadyCpuStep ==
    \/ ScenarioBeginFrame
    \/ SteadyAcquireOk
    \/ BindImage
    \/ RecordPass
    \/ ScenarioEndFrame

NextSteady ==
    \/ ScenarioBeginFrame
    \/ SteadyAcquireOk
    \/ BindImage
    \/ RecordPass
    \/ ScenarioEndFrame
    \/ GpuComplete
    \/ PresentExecute

\* the CPU thread keeps stepping while it can; the GPU completes every
\* submission and runs every present whose wait semaphore is signaled
SpecSteady ==
    /\ InitSteady
    /\ [][NextSteady]_vars
    /\ WF_vars(SteadyCpuStep)
    /\ WF_vars(GpuExecutes)
    /\ WF_vars(PresentExecute)

----------------------------------------------------------------------------
(* Lifetime of the native objects: creation, swapchain rebuild and         *)
(* shutdown of the three devices, one API call per step.  An object kind   *)
(* is "null" (no handle), "live", or "destroyed" (the handle is kept and   *)
(* dangles).  The colour and depth attachments are named color_* and       *)
(* depth_* for all three devices (blit_albedo_* and blit_depth_* in        *)
(* vulkan/device.rs, *_texture and *_texture_view in the other two).       *)

Impls == {"vulkan", "graphics", "gfx"}

\* a call is <<op, kind, guard>>
Calls(op, kinds) == [i \in 1 .. Len(kinds) |-> <<op, kinds[i], kinds[i]>>]

\* VulkanDeviceSync::destroy / the three for_each loops of the other devices
SyncKinds ==
    <<"fences_in_flight", "render_finished_semaphores",
      "image_available_semaphores">>

\* VulkanDevice::destroy_swapchain, in the order of its calls
VulkanSwapchainKinds ==
    <<"command_buffers", "descriptor_pool", "uniform_buffers",
      "color_view", "color_texture", "depth_view", "depth_texture",
      "framebuffers", "pipeline", "pipeline_layout", "render_pass",
      "swapchain_views", "swapchain">>

\* GraphicsDevice::destroy_swapchain
GraphicsSwapchainKinds ==
    <<"descriptor_pool", "uniform_buffers",
      "depth_view", "depth_texture", "color_view", "color_texture",
      "framebuffers", "pipeline", "pipeline_layout", "render_pass",
      "swapchain_views", "swapchain">>

\* destroy_swapchain of gfx/device.rs
GfxSwapchainKinds ==
    <<"framebuffers", "render_pass",
      "color_texture", "color_view", "depth_texture", "depth_view",
      "swapchain_views", "swapchain">>

SwapchainDestroyKinds(v) ==
    IF v = "vulkan" THEN VulkanSwapchainKinds
    ELSE IF v = "graphics" THEN GraphicsSwapchainKinds
    ELSE GfxSwapchainKinds

\* what VulkanDevice::recreate_swapchain creates, in order
VulkanCreateKinds ==
    <<"swapchain", "swapchain_views", "color_texture", "color_view",
      "depth_texture", "depth_view", "uniform_buffers", "render_pass",
      "pipeline_layout", "pipeline", "framebuffers", "descriptor_pool",
      "command_buffers">>

\* what GraphicsDevice::recreate_swapchain creates
GraphicsCreateKinds ==
    <<"swapchain", "swapchain_views", "render_pass", "pipeline_layout",
      "pipeline", "color_texture", "color_view", "depth_texture",
      "depth_view", "framebuffers", "uniform_buffers", "descriptor_pool",
      "command_buffers">>

\* what construct_swapchain of gfx/device.rs creates
GfxCreateKinds ==
    <<"swapchain", "swapchain_views", "render_pass", "color_texture",
      "color_view", "depth_texture", "depth_view", "framebuffers">>

SwapchainCreateKinds(v) ==
    IF v = "vulkan" THEN VulkanCreateKinds
    ELSE IF v = "graphics" THEN GraphicsCreateKinds
    ELSE GfxCreateKinds

\* what VulkanDevice::destroy releases between the sync objects and the
\* logical device
VulkanDeviceKinds ==
    <<"sampler", "back_albedo_view", "back_albedo_texture",
      "command_pool", "descriptor_set_layout">>

\* what GraphicsDevice::destroy releases there
GraphicsDeviceKinds ==
    <<"command_pools", "index_buffer", "vertex_buffer", "sampler",
      "material_texture", "material_texture_view", "command_pool",
      "descriptor_set_layout">>

DeviceKinds(v) ==
    IF v = "vulkan" THEN VulkanDeviceKinds
    ELSE IF v = "graphics" THEN GraphicsDeviceKinds
    ELSE <<>>

\* a destroy that releases the instance before the surface
InstanceBeforeSurface ==
    << <<"destroy", "logical_device", "logical_device">>,
       <<"destroy_some", "messenger", "messenger">>,
       <<"destroy", "instance", "instance">>,
       <<"destroy", "surface", "surface">> >>

\* the end of every destroy: destroy_device, destroy_surface_khr, the
\* messenger when there is one, destroy_instance
InstanceCalls ==
    << <<"destroy", "logical_device", "logical_device">>,
       <<"destroy", "surface", "surface">>,
       <<"destroy_some", "messenger", "messenger">>,
       <<"destroy", "instance", "instance">> >>

\* VulkanDevice::destroy, GraphicsDevice::destroy, Device::destroy
DeviceDestroyCalls(v) ==
    IF v = "gfx"
    THEN << <<"wait_idle", "logical_device", "logical_device">> >>
         \o Calls("destroy", SyncKinds)
         \o Calls("destroy", SwapchainDestroyKinds(v))
         \o InstanceCalls
    ELSE << <<"wait_idle", "logical_device", "logical_device">> >>
         \o Calls("destroy", SwapchainDestroyKinds(v))
         \o Calls("destroy", SyncKinds)
         \o Calls("destroy", DeviceKinds(v))
         \o InstanceCalls

\* recreate_swapchain (recontruct_swapchain of gfx waits for nothing)
RecreateCalls(v) ==
    (IF v = "gfx" THEN <<>>
     ELSE << <<"wait_idle", "logical_device", "logical_device">> >>)
    \o Calls("destroy", SwapchainDestroyKinds(v))
    \o Calls("create", SwapchainCreateKinds(v))

\* GPUDeviceContext::destroy: each object is destroyed when its handle is set,
\* and the handle is then cleared; the uniform buffers are guarded by
\* framebuffers.len() > 0
ContextDestroyCalls ==
    << <<"wait_idle", "logical_device", "logical_device">> >>
    \o Calls("destroy_clear",
             <<"ctx_command_buffers", "ctx_command_pool",
               "ctx_descriptor_sets", "ctx_descriptor_pool",
               "ctx_framebuffers", "ctx_pipeline", "ctx_pipeline_layout",
               "ctx_descriptor_set_layout", "ctx_render_pass">>)
    \o << <<"destroy_clear", "ctx_uniform_buffers", "ctx_framebuffers">> >>

\* GPUDeviceContext::recreate
ContextCreateCalls ==
    Calls("create",
          <<"ctx_uniform_buffers", "ctx_render_pass",
            "ctx_descriptor_set_layout", "ctx_pipeline_layout",
            "ctx_pipeline", "ctx_framebuffers", "ctx_descriptor_pool",
            "ctx_descriptor_sets", "ctx_command_pool",
            "ctx_command_buffers">>)

ContextKinds == {ContextCreateCalls[i][2] : i \in DOMAIN ContextCreateCalls}

Range(seq) == {seq[i] : i \in DOMAIN seq}

AllKinds ==
    UNION {Range(SwapchainDestroyKinds(v)) \cup Range(SwapchainCreateKinds(v))
             \cup Range(DeviceKinds(v)) : v \in Impls}
    \cup Range(SyncKinds) \cup ContextKinds
    \cup {"logical_device", "surface", "messenger", "instance"}

\* the kinds a device creates at construction
CreatedKinds(v) ==
    Range(SwapchainDestroyKinds(v)) \cup Range(SwapchainCreateKinds(v))
    \cup Range(DeviceKinds(v)) \cup Range(SyncKinds)
    \cup {"logical_device", "surface", "instance"}

\* VulkanDevice: create_command_buffers(self.data.command_pool, views.len())
\* allocates the buffers of all images from the one pool of the device
VulkanCommandBuffers(n) ==
    [i \in Images(n) |-> [pool |-> <<"command_pool">>, buffer |-> <<"dev", i>>]]

\* GraphicsDevice: create_command_pools pushes one pool per image, and
\* create_command_buffers allocates the buffer of image i from command_pools[i]
GraphicsCommandBuffers(n) ==
    [i \in Images(n) |->
        [pool |-> <<"command_pools", i>>, buffer |-> <<"primary", i>>]]

\* GPUDeviceContext::recreate: one create_command_pool, then
\* create_command_buffers(self.command_pool, views.len())
ContextCommandBuffers(n) ==
    [i \in Images(n) |-> [pool |-> <<"ctx_command_pool">>, buffer |-> <<"ctx", i>>]]

\* the command buffers a device allocates for n images
DeviceCommandBuffers(v, n) ==
    IF v = "vulkan" THEN VulkanCommandBuffers(n)
    ELSE IF v = "graphics" THEN GraphicsCommandBuffers(n)
    ELSE <<>>

\* each device after its create; the messenger exists in validation builds;
\* the facade context of GPUDevice starts null
InitLife ==
    /\ variant \in Impls
    /\ \E n \in ImageCounts : InitDevice(n)
    /\ ctx_len = 0
    /\ ctx_queues = EmptyQueues(0)
    /\ ctx_on_swapchain = FALSE
    /\ \E messenger \in {"null", "live"} :
          objects = [k \in AllKinds |->
                       IF k \in CreatedKinds(variant) THEN "live"
                       ELSE IF k = "messenger" THEN messenger
                       ELSE "null"]
    /\ todo = <<>>
    /\ destroy_log = <<>>
    /\ invalid_calls = {}
    /\ destroy_calls = 0
    /\ command_buffers = [device  |-> DeviceCommandBuffers(variant, image_count),
                          context |-> <<>>]
    /\ EncoderUntracked
    /\ SurfaceUntracked

\* a handler starts: its calls are queued
Enter(calls, at) ==
    /\ todo' = calls
    /\ destroy_log' = <<>>
    /\ pc' = at
    /\ UNCHANGED <<variant, enc, surf, resize_pending, objects, invalid_calls,
                   command_buffers, dev, swap, sems, ctx, gpu, frame, hist, aux>>

\* the rebuild inside begin_frame or end_frame (update, for the other two)
LifeRecreate ==
    /\ pc = "idle"
    /\ Enter(RecreateCalls(variant), "rebuilding")
    /\ UNCHANGED destroy_calls

\* GPUDevice::reset on a resized device: VulkanDevice::reset, then
\* GPUDeviceContext::reset (destroy and recreate)
LifeReset ==
    /\ pc = "idle"
    /\ variant = "vulkan"
    /\ Enter(RecreateCalls(variant) \o ContextDestroyCalls
                \o ContextCreateCalls, "rebuilding")
    /\ UNCHANGED destroy_calls

\* GPUDevice::destroy (context.destroy, then VulkanDevice::destroy), or the
\* destroy of the other two devices; nothing keeps a caller from a second call
LifeDestroy ==
    /\ pc \in {"idle", "destroyed"}
    /\ destroy_calls < MaxDestroys
    /\ destroy_calls' = destroy_calls + 1
    /\ Enter((IF variant = "vulkan" THEN ContextDestroyCalls ELSE <<>>)
                \o DeviceDestroyCalls(variant), "destroying")

\* the state of the objects after a call
AfterCall(c) ==
    IF c[1] = "create" THEN [objects EXCEPT ![c[2]] = "live"]
    ELSE IF c[1] = "destroy" THEN [objects EXCEPT ![c[2]] = "destroyed"]
    ELSE IF c[1] = "destroy_some" /\ objects[c[3]] # "null"
         THEN [objects EXCEPT ![c[2]] = "destroyed"]
    ELSE IF c[1] = "destroy_clear" /\ objects[c[3]] # "null"
         THEN [objects EXCEPT ![c[2]] = "null"]
    ELSE objects

\* the command buffers after a call: allocated anew by the create of the
\* device's or the context's buffers, gone when these are freed
CommandBuffersAfter(c) ==
    IF c[2] \notin {"command_buffers", "ctx_command_buffers"}
    THEN command_buffers
    ELSE LET owner  == IF c[2] = "command_buffers" THEN "device" ELSE "context"
             now    == IF c[1] = "create"
                       THEN IF owner = "device"
                            THEN DeviceCommandBuffers(variant, image_count)
                            ELSE ContextCommandBuffers(image_count)
                       ELSE IF c[1] = "destroy" \/ objects[c[3]] # "null"
                       THEN <<>>
                       ELSE command_buffers[owner]
         IN  [command_buffers EXCEPT ![owner] = now]

\* the call reaches a vkDestroy* / vkFree* function
Destroys(c) ==
    \/ c[1] = "destroy"
    \/ c[1] \in {"destroy_some", "destroy_clear"} /\ objects[c[3]] # "null"

\* the handler makes its next call and, after its last, returns
LifeCall ==
    /\ todo # <<>>
    /\ LET c == Head(todo)
       IN  /\ objects' = AfterCall(c)
           /\ command_buffers' = CommandBuffersAfter(c)
           /\ destroy_log' = IF Destroys(c) THEN Append(destroy_log, c[2])
                             ELSE destroy_log
           /\ invalid_calls' =
                 IF Destroys(c) /\ objects[c[2]] # "live"
                 THEN invalid_calls \cup {c[2]} ELSE invalid_calls
    /\ todo' = Tail(todo)
    /\ pc' = IF Tail(todo) # <<>> THEN pc
             ELSE IF pc = "destroying" THEN "destroyed" ELSE "idle"
    /\ UNCHANGED <<variant, enc, surf, resize_pending, destroy_calls, dev, swap, sems, ctx, gpu, frame,
                   hist, aux>>

\* device_wait_idle().unwrap() on a destroyed logical device: the call may
\* return, which is LifeCall, or bring the process down
LifeCrash ==
    /\ todo # <<>>
    /\ Head(todo)[1] = "wait_idle"
    /\ objects["logical_device"] # "live"
    /\ todo' = <<>>
    /\ pc' = "crashed"
    /\ UNCHANGED <<variant, enc, surf, resize_pending, objects, destroy_log, invalid_calls,
                   destroy_calls, command_buffers, dev, swap, sems, ctx, gpu,
                   frame, hist, aux>>

NextLife ==
    \/ LifeRecreate
    \/ LifeReset
    \/ LifeDestroy
    \/ LifeCall
    \/ LifeCrash

SpecLife == InitLife /\ [][NextLife]_vars

----------------------------------------------------------------------------
(* A client of GPURenderPassEncoder: it opens a pass, makes recording       *)
(* calls, ends the pass, and may go on calling the encoder it still holds. *)

MaxCalls == 3

\* set_pipeline, set_vertex_buffer, set_index_buffer, set_bind_group, draw,
\* draw_indexed
RecordingCalls ==
    {"set_pipeline", "set_vertex_buffer", "set_index_buffer",
     "set_bind_group", "draw", "draw_indexed"}

\* each call hands its arguments to the vkCmd* function and returns Ok(())
CallResult(cmd, open) == "ok"

\* whatever the state of the pass, the command goes into the command buffer
CallRecorded(cmd, open) == TRUE

InitEncoder ==
    /\ variant = "encoder"
    /\ \E n \in ImageCounts :
          /\ InitDevice(n)
          /\ ctx_len = n
          /\ ctx_queues = EmptyQueues(n)
    /\ ctx_on_swapchain = TRUE
    /\ LifeUntracked
    /\ EncoderUntracked
    /\ SurfaceUntracked

\* GPUCommandEncoder::begin_render_pass: the command buffer is reset and
\* begun, the render pass begins, a GPURenderPassEncoder is returned
EncBeginPass ==
    /\ ~pass_open
    /\ pass_open' = TRUE
    /\ encoder_calls' = << [cmd |-> "begin_render_pass", open |-> FALSE,
                            result |-> "ok", recorded |-> TRUE] >>
    /\ UNCHANGED <<variant, pc, dev, swap, sems, ctx, gpu, frame, hist, aux,
                   life, resize_pending, surf>>

\* one recording call on the encoder
EncCall ==
    /\ encoder_calls # <<>>
    /\ Len(encoder_calls) <= MaxCalls
    /\ \E cmd \in RecordingCalls :
          encoder_calls' =
             Append(encoder_calls,
                    [cmd |-> cmd, open |-> pass_open,
                     result |-> CallResult(cmd, pass_open),
                     recorded |-> CallRecorded(cmd, pass_open)])
    /\ UNCHANGED <<variant, pc, dev, swap, sems, ctx, gpu, frame, hist, aux,
                   life, resize_pending, surf, pass_open>>

\* GPURenderPassEncoder::end: cmd_end_render_pass
EncEnd ==
    /\ pass_open
    /\ pass_open' = FALSE
    /\ UNCHANGED <<variant, pc, dev, swap, sems, ctx, gpu, frame, hist, aux,
                   life, resize_pending, surf, encoder_calls>>

NextEncoder ==
    \/ EncBeginPass
    \/ EncCall
    \/ EncEnd

SpecEncoder == InitEncoder /\ [][NextEncoder]_vars

----------------------------------------------------------------------------
(* The swapchain parameters create_swapchain derives from the surface's     *)
(* capabilities.  The capabilities are those a conformant surface reports:  *)
(* min_image_count >= 1, max_image_count either 0 (no limit) or at least    *)
(* min_image_count, min_image_extent <= max_image_extent, and a current     *)
(* extent that is either within these bounds or (u32::MAX, u32::MAX).       *)

\* u32::MAX, on a word scaled down to 8 bits (TLC's integers end at 2^31 - 1);
\* every count and side drawn below stays far from it, as the real ones do
U32Max == 255

MaxCount == 3
MaxSide == 2

Sides == 1 .. MaxSide

SurfaceCapabilities ==
    { c \in [min_image_count  : 1 .. MaxCount,
             max_image_count  : 0 .. (MaxCount + 1),
             min_image_extent : Sides \X Sides,
             max_image_extent : Sides \X Sides,
             current_extent   : (Sides \X Sides) \cup {<<U32Max, U32Max>>}] :
        /\ c.max_image_count = 0 \/ c.max_image_count >= c.min_image_count
        /\ \A d \in 1 .. 2 : c.min_image_extent[d] <= c.max_image_extent[d]
        /\ \/ c.current_extent = <<U32Max, U32Max>>
           \/ \A d \in 1 .. 2 :
                 /\ c.min_image_extent[d] <= c.current_extent[d]
                 /\ c.current_extent[d] <= c.max_image_extent[d] }

WindowSizes == (0 .. (MaxSide + 1)) \X (0 .. (MaxSide + 1))

\* u32::min, u32::max
Minimum(a, b) == IF a < b THEN a ELSE b
Maximum(a, b) == IF a > b THEN a ELSE b

\* a clamp that lets the value through
Unclamped(min, max, v) == v

\* let clamp = |min: u32, max: u32, v: u32| min.max(max.min(v))
clamp(min, max, v) == Maximum(min, Minimum(max, v))

\* VulkanApi::get_extent
get_extent(size, capabilities) ==
    IF capabilities.current_extent[1] # U32Max
    THEN capabilities.current_extent
    ELSE << clamp(capabilities.min_image_extent[1],
                  capabilities.max_image_extent[1], size[1]),
            clamp(capabilities.min_image_extent[2],
                  capabilities.max_image_extent[2], size[2]) >>

\* an image count that is never cut back
MinPlusOne(capabilities) == (capabilities.min_image_count + 1) % (U32Max + 1)

\* create_swapchain: image_count = min_image_count + 1, cut back to
\* max_image_count when that is nonzero and smaller
RequestedImageCount(capabilities) ==
    LET count == (capabilities.min_image_count + 1) % (U32Max + 1)
    IN  IF capabilities.max_image_count # 0 /\ count > capabilities.max_image_count
        THEN capabilities.max_image_count
        ELSE count

InitSurface ==
    /\ variant = "surface"
    /\ \E n \in ImageCounts : InitDevice(n)
    /\ ctx_len = 0
    /\ ctx_queues = EmptyQueues(0)
    /\ ctx_on_swapchain = FALSE
    /\ LifeUntracked
    /\ EncoderUntracked
    /\ caps \in SurfaceCapabilities
    /\ window_size \in WindowSizes
    /\ chosen = <<>>

\* VulkanApi::create_swapchain up to its SwapchainCreateInfoKHR
CreateSwapchain ==
    /\ chosen = <<>>
    /\ chosen' = [image_count |-> RequestedImageCount(caps),
                  extent      |-> get_extent(window_size, caps)]
    /\ UNCHANGED <<variant, pc, dev, swap, sems, ctx, gpu, frame, hist, aux,
                   life, resize_pending, enc, caps, window_size>>

NextSurface ==
    \/ CreateSwapchain

SpecSurface == InitSurface /\ [][NextSurface]_vars

----------------------------------------------------------------------------
(* Properties *)

\* C1: a frame that acquired image i and is recording or submitting found
\* ImageFence[i] either unset or signaled when it bound the image, and
\* ImageFence[i] now holds the in-flight fence of the frame's slot
ImageFenceWaitedBeforeRecording ==
    (pc = "recording" /\ frame_status = "acquired") =>
        /\ IF prev_image_fence = 0 THEN TRUE
           ELSE fence_signaled[prev_image_fence - 1]
        /\ textures_in_flight[swap_index] = in_flight_fence

\* C1 witness: with three images, a recording frame whose image was bound to
\* the fence of the other slot
ImageFenceOfOtherSlotWaited ==
    /\ pc = "recording"
    /\ frame_status = "acquired"
    /\ image_count = 3
    /\ prev_image_fence # 0
    /\ prev_image_fence # in_flight_fence

\* C2: while a frame records, the in-flight fence of its slot frame_index is
\* the fence begin_frame waited on, and it is signaled
SlotFenceWaitedBeforeRecording ==
    pc = "recording" =>
        /\ in_flight_fence = frame_index + 1
        /\ fence_signaled[in_flight_fence - 1]

\* C2 witness: a frame records a pass on a slot an earlier frame submitted on,
\* while the frame of the other slot is still in flight
SlotReusedWhileRecording ==
    /\ pc = "recording"
    /\ passes > 0
    /\ gfx_queue # <<>>
    /\ \E i \in DOMAIN textures_in_flight :
          i # swap_index /\ textures_in_flight[i] = in_flight_fence

\* C3: no two submissions in flight on the graphics queue target the same
\* swapchain image
NoTwoSubmissionsOnOneImage ==
    \A j, k \in DOMAIN gfx_queue :
        j # k => gfx_queue[j].image # gfx_queue[k].image

\* C4: at most frame_slot_count submitted frames have an unsignaled fence
InFlightAtMostSlotCount ==
    Len(gfx_queue) <= MAX_FRAMES_IN_FLIGHT

\* C4 witness: both slots hold a frame in flight while the CPU starts the next
BothSlotsInFlight ==
    /\ Len(gfx_queue) = MAX_FRAMES_IN_FLIGHT
    /\ pc = "bf_fence"

\* C5: every present request waits on the render-finished semaphore of its
\* own slot, and none has run while the submission signaling it was in flight
PresentAfterRenderFinished ==
    /\ ~early_present
    /\ \A f \in Slots :
          present_pending[f] # NoPresent => present_pending[f].wait = <<"rf", f>>

\* C5 witness: this frame's present has run, after its submission completed,
\* while the next frame's submission is not yet issued
PresentRanAfterCompletion ==
    /\ pc = "idle"
    /\ frame_submitted
    /\ gfx_queue = <<>>
    /\ present_pending[in_flight_fence - 1] = NoPresent
    /\ ~render_finished[in_flight_fence - 1]

\* C6: a frame whose acquire reported out of date records no pass and issues
\* no submission
OutOfDateFrameRecordsNothing ==
    frame_status = "out_of_date" => (passes = 0 /\ ~frame_submitted)

\* C7: no acquire is attempted while any out-of-date or suboptimal report, of
\* acquire or of present, is not yet followed by a rebuild
EveryReportRebuiltBeforeAcquire ==
    pc = "bf_fence" => rebuild_due = "none"

\* C7 amended: no acquire is attempted while an out-of-date report of acquire
\* or an out-of-date or suboptimal report of present is not yet followed by a
\* rebuild
RequiredRebuildBeforeAcquire ==
    pc = "bf_fence" => rebuild_due # "required"

\* C7 witness: a present report has sent end_frame into the rebuild
RebuildPendingAfterPresent ==
    /\ pc = "ef_recreate"
    /\ rebuild_due = "required"
    /\ frame_status = "acquired"

\* C8: the step by which end_frame enters the rebuild is the step that issues
\* the frame's queue submission and present request, and it moves frame_index
\* on to the next slot
RebuildAfterSubmitAndAdvance ==
    [][ (pc # "ef_recreate" /\ pc' = "ef_recreate") =>
          /\ Len(gfx_queue') = Len(gfx_queue) + 1
          /\ gfx_queue'[Len(gfx_queue')].fence = in_flight_fence
          /\ present_pending'[in_flight_fence - 1].image = swap_index
          /\ frame_index' = in_flight_fence % MAX_FRAMES_IN_FLIGHT ]_vars

\* C8 witness: end_frame is in the rebuild with the frame's work queued
RebuildWithFrameQueued ==
    /\ pc = "ef_recreate"
    /\ frame_submitted
    /\ frame_status = "acquired"
    /\ passes > 0
    /\ gfx_queue # <<>>

\* C9: no teardown runs while a submission is in flight
NoTeardownInFlight ==
    ~destroyed_in_flight

\* C10: a frame that acquired an image and recorded no pass submits exactly
\* one command buffer, the clear pass of its image
DefaultClearSubmitted ==
    (pc \in {"idle", "ef_recreate"} /\ frame_status = "acquired" /\ passes = 0) =>
        last_bufs = << <<"dev", swap_index>> >>

\* C10 witness: a frame with no recorded pass has ended
EmptyFrameEnded ==
    /\ pc = "idle"
    /\ frame_status = "acquired"
    /\ passes = 0
    /\ frame_submitted

\* C11: end_frame issues exactly one queue submission, which holds every
\* command buffer queued for the frame's image, in order; and whenever
\* end_frame has returned, the pending queues are empty
PendingFlushedOnceThenCleared ==
    /\ [](pc = "idle" =>
            /\ \A i \in DOMAIN command_buffer_queues :
                  command_buffer_queues[i] = <<>>
            /\ \A i \in DOMAIN ctx_queues : ctx_queues[i] = <<>>)
    /\ [][ (pc = "recording" /\ pc' \in {"idle", "ef_recreate"}) =>
             /\ Len(gfx_queue') = Len(gfx_queue) + 1
             /\ ctx_queues[swap_index] # <<>> =>
                   gfx_queue'[Len(gfx_queue')].bufs =
                      command_buffer_queues[swap_index] \o ctx_queues[swap_index]
             /\ command_buffer_queues'[swap_index] = <<>> ]_vars

\* C11 witness: a frame that queued more than one command buffer has ended,
\* with all of them in its submission
QueuedBuffersSubmitted ==
    /\ pc = "idle"
    /\ frame_submitted
    /\ passes > 1
    /\ Len(last_bufs) = passes
    /\ ctx_queues[swap_index] = <<>>

\* C12: while a frame records, the command buffers handed to submit so far
\* are all on the pending queue of the image the frame's begin_frame acquired,
\* and no other pending queue holds any
SubmittedToCurrentImage ==
    (pc = "recording" /\ frame_status = "acquired" /\ swap_index < ctx_len) =>
        /\ Len(ctx_queues[swap_index]) = passes
        /\ \A i \in DOMAIN ctx_queues :
              i # swap_index => ctx_queues[i] = <<>>

\* C13: a frame whose present reported a failure other than out of date or
\* suboptimal ends with end_frame returning an error
PresentFailureReturned ==
    present_result = "error" => pc = "failed"

\* C14: no frame in which acquire reported out of date, or present reported
\* out of date or suboptimal, ends with begin_frame or end_frame returning the
\* report as an error; only a failure of the rebuild itself is returned
RebuildReportsAbsorbed ==
    (\/ frame_status = "out_of_date"
     \/ present_result \in {"suboptimal", "out_of_date"}) => pc # "failed"

\* C14 witness: end_frame has returned after a stale present and its rebuild
StalePresentAbsorbed ==
    /\ pc = "idle"
    /\ present_result \in {"suboptimal", "out_of_date"}
    /\ rebuild_due = "none"
    /\ frame_status = "acquired"

\* C15: a fence-wait or acquire failure of begin_frame other than out of date
\* is returned as an error; the step that reports it rebuilds nothing and
\* issues nothing, and the failed call is not taken up again
FatalBeginFrameErrorReturned ==
    /\ [](frame_status = "error" => pc = "failed")
    /\ [][ (frame_status' = "error" /\ frame_status # "error") =>
             UNCHANGED <<swap, gpu, frame_index, rebuild_due,
                         destroyed_in_flight>> ]_vars
    /\ [][ pc = "failed" => pc' = "failed" ]_vars

\* C15 witness: begin_frame has returned an error while an earlier frame is
\* still in flight
BeginFrameFailedInFlight ==
    /\ pc = "failed"
    /\ frame_status = "error"
    /\ gfx_queue # <<>>

\* C16: a pass is recorded only with context objects (framebuffers, render
\* pass, attachments) that were built on the current swapchain
RecordingUsesCurrentGeneration ==
    (pc = "recording" /\ passes > 0) => ctx_on_swapchain

\* C17: once the context has been built, every step that completes a rebuild
\* leaves the image count, the length of the ImageFence table, the number of
\* device command-buffer queues and the number of per-image command buffers
\* of the context equal
SizesEqualAfterRebuild ==
    [][ (/\ pc \in {"reset_wait", "bf_recreate", "ef_recreate"}
         /\ pc' \in {"idle", "recording"}
         /\ ctx_len > 0) =>
          /\ DOMAIN textures_in_flight' = Images(image_count')
          /\ DOMAIN command_buffer_queues' = Images(image_count')
          /\ ctx_len' = image_count' ]_vars

\* C18: every step that completes a rebuild leaves every entry of the
\* ImageFence table unset
ImageFencesClearedByRebuild ==
    [][ (/\ pc \in {"reset_wait", "bf_recreate", "ef_recreate"}
         /\ pc' \in {"idle", "recording"}) =>
          \A i \in DOMAIN textures_in_flight' : textures_in_flight'[i] = 0 ]_vars

\* C18 amended: every step that completes a rebuild leaves the ImageFence
\* table with one entry per image of the new swapchain; an entry of an image
\* index that existed before keeps its fence, which has signaled, and an
\* entry of a new image index is unset
ImageFencesResizedByRebuild ==
    [][ (/\ pc \in {"reset_wait", "bf_recreate", "ef_recreate"}
         /\ pc' \in {"idle", "recording"}) =>
          /\ DOMAIN textures_in_flight' = Images(image_count')
          /\ \A i \in DOMAIN textures_in_flight' :
                IF i \in DOMAIN textures_in_flight
                THEN /\ textures_in_flight'[i] = textures_in_flight[i]
                     /\ IF textures_in_flight[i] = 0 THEN TRUE
                        ELSE fence_signaled'[textures_in_flight[i] - 1]
                ELSE textures_in_flight'[i] = 0 ]_vars

\* C18 witness: end_frame has returned from its rebuild, the table has grown
\* and an entry still holds a fence
ImageFenceKeptAcrossRebuild ==
    /\ pc = "idle"
    /\ present_result \in {"suboptimal", "out_of_date"}
    /\ rebuild_due = "none"
    /\ image_count = 3
    /\ textures_in_flight[0] # 0
    /\ textures_in_flight[2] = 0

\* C19: no rebuild destroys, recreates or resizes the per-slot fences and
\* semaphores: there is always one of each per frame slot, they are the
\* objects made at device creation, and a step that completes a rebuild
\* leaves their state as it was
SlotsUntouchedByRebuild ==
    /\ [](/\ ~slots_rebuilt
          /\ DOMAIN fence_signaled = Slots
          /\ DOMAIN image_available = Slots
          /\ DOMAIN render_finished = Slots)
    /\ [][ (/\ pc \in {"reset_wait", "bf_recreate", "ef_recreate"}
            /\ pc' \in {"idle", "recording"}) => UNCHANGED sems ]_vars

\* C19 witness: after a rebuild inside a frame, a later frame has acquired an
\* image on the second slot's fence
SlotUsedAfterRebuild ==
    /\ pc = "recording"
    /\ frame_status = "acquired"
    /\ ctx_len > 0
    /\ ~ctx_on_swapchain
    /\ in_flight_fence = 2
    /\ ~slots_rebuilt

\* C20: in the scenario run, the rebuild of the out-of-date frame is complete
\* before that frame records, every other frame acquires an image, and the
\* run reaches the end of its last frame with every frame's work executed
\* and presented, no wait blocking forever
ScenarioFramesPresent ==
    /\ []((frame_no = OutOfDateFrame /\ pc = "recording") =>
             rebuild_due = "none")
    /\ []((frame_no # OutOfDateFrame /\ pc \in {"recording", "ef_recreate"}) =>
             frame_status = "acquired")
    /\ <>(/\ frame_no = ScenarioFrames
          /\ pc = "idle"
          /\ frame_submitted
          /\ wait_until_idle)

\* C21: in the steady run, frame k of the ScenarioFrames frames runs on slot
\* (k - 1) mod frame_slot_count (0,1,0,1,0), each end_frame issues one queue
\* submission and one present request for the frame's image, and the run
\* reaches the end of its last frame with every submission executed and every
\* present request run: no fence wait blocks forever
SteadyFramesPresent ==
    /\ [](pc \in {"bf_fence", "bf_image", "recording"} =>
             /\ frame_index = (frame_no - 1) % MAX_FRAMES_IN_FLIGHT
             /\ in_flight_fence = frame_index + 1)
    /\ [][ (pc = "recording" /\ pc' # "recording") =>
             /\ pc' = "idle"
             /\ Len(gfx_queue') = Len(gfx_queue) + 1
             /\ present_pending'[frame_index].image = swap_index
             /\ frame_submitted' ]_vars
    /\ [](frame_no <= ScenarioFrames)
    /\ <>[](/\ frame_no = ScenarioFrames
            /\ pc = "idle"
            /\ frame_submitted
            /\ wait_until_idle)

\* C21 witness: the last frame of the steady run has ended and all work has
\* been executed and presented
SteadyRunDone ==
    /\ variant = "steady"
    /\ frame_no = ScenarioFrames
    /\ pc = "idle"
    /\ frame_submitted
    /\ wait_until_idle
    /\ frame_index = ScenarioFrames % MAX_FRAMES_IN_FLIGHT
    /\ image_count = 3

\* advance applied k times
RECURSIVE AdvanceTimes(_, _)
AdvanceTimes(f, k) == IF k = 0 THEN f ELSE AdvanceTimes(advance(f), k - 1)

\* C22: the end_frame step of every frame that submits moves frame_index to
\* (frame_index + 1) mod frame_slot_count and no other step changes it, so
\* frame_slot_count frames in a row bring it back to where it was
FrameIndexRoundRobin ==
    /\ [](/\ frame_index \in Slots
          /\ \A f \in Slots : AdvanceTimes(f, MAX_FRAMES_IN_FLIGHT) = f)
    /\ [][ (pc = "recording" /\ pc' \in {"idle", "ef_recreate"}) =>
             frame_index' = (frame_index + 1) % MAX_FRAMES_IN_FLIGHT ]_vars
    /\ [][ frame_index' # frame_index =>
             (pc = "recording" /\ frame_submitted') ]_vars

\* C22 witness: a frame on the last slot has ended and frame_index is back at
\* the first slot
FrameIndexWrapped ==
    /\ pc = "idle"
    /\ frame_status = "acquired"
    /\ frame_submitted
    /\ in_flight_fence = MAX_FRAMES_IN_FLIGHT
    /\ frame_index = 0

\* the image views a framebuffer binds, and the images behind them
AttachmentKinds ==
    {"color_view", "color_texture", "depth_view", "depth_texture",
     "swapchain_views"}

\* C23: a step that destroys an attachment image or view finds no framebuffer,
\* no pipeline and no render pass of the render target live; a step that
\* destroys a render pass finds no framebuffer and no pipeline built on it
\* live; a step that destroys a pipeline finds no framebuffer of its render
\* pass live
TeardownInReverseOrder ==
    [][ LET Released(k) == objects[k] = "live" /\ objects'[k] # "live" IN
        /\ \A a \in AttachmentKinds :
              Released(a) =>
                 \A k \in {"framebuffers", "ctx_framebuffers", "pipeline",
                           "render_pass"} : objects[k] # "live"
        /\ Released("render_pass") =>
              (objects["framebuffers"] # "live" /\ objects["pipeline"] # "live")
        /\ Released("ctx_render_pass") =>
              (/\ objects["ctx_framebuffers"] # "live"
               /\ objects["ctx_pipeline"] # "live")
        /\ Released("pipeline") => objects["framebuffers"] # "live"
        /\ Released("ctx_pipeline") => objects["ctx_framebuffers"] # "live"
      ]_vars

\* C24: a run of destroy destroys the surface once, after it has destroyed the
\* logical device, and destroys the instance only after the surface; when
\* destroy has returned all three are gone, and the surface was live when the
\* first shutdown destroyed it
SurfaceDestroyedInOrder ==
    /\ \A i, j \in DOMAIN destroy_log :
          (destroy_log[i] = "surface" /\ destroy_log[j] = "surface") => i = j
    /\ \A j \in DOMAIN destroy_log :
          /\ destroy_log[j] = "surface" =>
                \E i \in 1 .. (j - 1) : destroy_log[i] = "logical_device"
          /\ destroy_log[j] = "instance" =>
                \E i \in 1 .. (j - 1) : destroy_log[i] = "surface"
    /\ pc = "destroyed" =>
          \A k \in {"logical_device", "surface", "instance"} :
             k \in Range(destroy_log) /\ objects[k] = "destroyed"
    /\ destroy_calls <= 1 => "surface" \notin invalid_calls

\* C24 witness: the first shutdown has returned
ShutDownOnce ==
    /\ pc = "destroyed"
    /\ destroy_calls = 1
    /\ objects["surface"] = "destroyed"
    /\ objects["instance"] = "destroyed"
    /\ objects["messenger"] = "destroyed"

\* C27: no destroy call reaches an object that is not live, and no call of
\* destroy brings the process down
RepeatedDestroyHarmless ==
    /\ invalid_calls = {}
    /\ pc # "crashed"

\* C25: outside a running rebuild, the resize flag is set exactly when a
\* resize has been reported that no completed rebuild has followed
ResizeFlagHeldUntilRebuilt ==
    /\ resized => resize_pending
    /\ (resize_pending /\ pc \notin {"reset_wait", "ef_recreate"}) => resized

\* C26: a recording call made while the pass is open returns Ok and is
\* recorded; a recording call made while no pass is open returns an error and
\* records nothing
RecordingCallsCheckPass ==
    \A i \in DOMAIN encoder_calls :
       encoder_calls[i].cmd \in RecordingCalls =>
          IF encoder_calls[i].open
          THEN encoder_calls[i].result = "ok" /\ encoder_calls[i].recorded
          ELSE encoder_calls[i].result = "err" /\ ~encoder_calls[i].recorded

\* C28: the image count asked for is min_image_count + 1, or max_image_count
\* when that is nonzero and min_image_count + 1 exceeds it; it is never below
\* min_image_count and, when max_image_count is nonzero, never above it
ImageCountClamped ==
    chosen # <<>> =>
        /\ chosen.image_count =
              IF /\ caps.max_image_count # 0
                 /\ caps.min_image_count + 1 > caps.max_image_count
              THEN caps.max_image_count
              ELSE caps.min_image_count + 1
        /\ chosen.image_count >= caps.min_image_count
        /\ caps.max_image_count # 0 =>
              chosen.image_count <= caps.max_image_count

\* C28 witness: min_image_count + 1 exceeds a nonzero max_image_count and the
\* count asked for is max_image_count
ImageCountCutBack ==
    /\ chosen # <<>>
    /\ caps.max_image_count # 0
    /\ caps.min_image_count + 1 > caps.max_image_count
    /\ chosen.image_count = caps.max_image_count

\* C29: the extent chosen is the surface's current extent unless that is
\* (u32::MAX, u32::MAX); then each component is the window's size, raised to
\* the minimum extent or lowered to the maximum extent where it lies outside
ExtentChosen ==
    chosen # <<>> =>
        IF caps.current_extent # <<U32Max, U32Max>>
        THEN chosen.extent = caps.current_extent
        ELSE \A d \in 1 .. 2 :
                /\ chosen.extent[d] >= caps.min_image_extent[d]
                /\ chosen.extent[d] <= caps.max_image_extent[d]
                /\ chosen.extent[d] =
                      IF window_size[d] < caps.min_image_extent[d]
                      THEN caps.min_image_extent[d]
                      ELSE IF window_size[d] > caps.max_image_extent[d]
                      THEN caps.max_image_extent[d]
                      ELSE window_size[d]

\* C29 witness: the current extent is undefined, the window is wider than the
\* maximum extent and lower than the minimum extent
ExtentClampedBothWays ==
    /\ chosen # <<>>
    /\ caps.current_extent = <<U32Max, U32Max>>
    /\ window_size[1] > caps.max_image_extent[1]
    /\ window_size[2] < caps.min_image_extent[2]
    /\ chosen.extent = <<caps.max_image_extent[1], caps.min_image_extent[2]>>

\* C30: the CPU moves from Idle to Acquiring, from Acquiring to Recording,
\* and from Recording, through the submit and the present of end_frame, back
\* to Idle; a rebuild is entered only by an out-of-date acquire or by the
\* present step of end_frame (stale present or resize flag), never from Idle
\* or Recording, and a rebuild that completes returns to Idle
FrameStateMachine ==
    [][ LET Rebuilding == {"reset_wait", "bf_recreate", "ef_recreate"}
            Acquiring  == {"bf_fence", "bf_image"}
        IN  /\ pc = "idle" => pc' \in {"idle", "bf_fence", "destroy_wait"}
            /\ pc \in Acquiring =>
                  pc' \in Acquiring \cup {"recording", "bf_recreate", "failed"}
            /\ pc = "recording" =>
                  pc' \in {"recording", "idle", "ef_recreate", "panicked"}
            /\ (pc' \in Rebuilding /\ pc \notin Rebuilding) =>
                  \/ pc = "bf_fence" /\ frame_status' = "out_of_date"
                  \/ /\ pc = "recording"
                     /\ frame_submitted'
                     /\ resized \/ Stale(present_result')
            /\ (pc \in Rebuilding /\ pc' \notin Rebuilding) =>
                  pc' \in {"idle", "rebuild_failed"}
      ]_vars

\* C31: every queue submission waits on an image-available semaphore that a
\* successful acquire of the same frame has signaled; no submission waits on a
\* semaphore with no pending signal
SubmissionWaitsOnAcquiredImage ==
    \A k \in DOMAIN gfx_queue :
       /\ gfx_queue[k].acquired
       /\ gfx_queue[k].sem_ok
       /\ gfx_queue[k].wait[1] = "ia"

\* C32: while a frame records or ends, the acquired-image index that indexes
\* the per-image arrays is smaller than the current swapchain image count and
\* within the ImageFence table
SwapIndexWithinImages ==
    pc = "recording" =>
       /\ swap_index < image_count
       /\ swap_index \in DOMAIN textures_in_flight
       /\ swap_index \in DOMAIN command_buffer_queues

\* C33: whenever a pass is recorded through the facade or GPUDevice::end_frame
\* runs, the facade context's per-image arrays and pending queues have exactly
\* one entry per current swapchain image
ContextArraysMatchSwapchain ==
    pc = "recording" =>
       /\ ctx_len = image_count
       /\ DOMAIN ctx_queues = Images(image_count)

RecordedOnlyWhenNotPending ==
    [][ /\ passes' > passes =>
              \A k \in DOMAIN gfx_queue :
                 <<"ctx", swap_index>> \notin Range(gfx_queue[k].bufs)
        /\ (frame_submitted' /\ ~frame_submitted
               /\ <<"dev", swap_index>> \in Range(last_bufs')) =>
              \A k \in DOMAIN gfx_queue :
                 <<"dev", swap_index>> \notin Range(gfx_queue[k].bufs)
      ]_vars

\* C36: when a frame begins, the pending command queues of every image, the
\* device's and the facade context's, are empty: nothing queued in one frame
\* is left for a later frame to submit
QueuesEmptyAtBeginFrame ==
    pc \in {"bf_fence", "bf_image"} =>
       /\ \A i \in DOMAIN command_buffer_queues : command_buffer_queues[i] = <<>>
       /\ \A i \in DOMAIN ctx_queues : ctx_queues[i] = <<>>

\* C37: a command buffer that is on a pending queue is not reset or recorded
\* again before end_frame submits it, and a frame's submission holds each
\* command buffer at most once, however many passes the frame records
QueuedBufferLeftAlone ==
    [][ /\ passes' > passes =>
              <<"ctx", swap_index>> \notin Range(ctx_queues[swap_index])
        /\ \A k \in DOMAIN gfx_queue' :
              \A a, b \in DOMAIN gfx_queue'[k].bufs :
                 gfx_queue'[k].bufs[a] = gfx_queue'[k].bufs[b] => a = b
      ]_vars

\* C38: a swapchain rebuild or context reset leaks no handle: every object it
\* destroys is live (destroyed once), and every object it creates replaces one
\* that has been destroyed, so the live per-swapchain objects are those of
\* the current generation only
RebuildLeaksNoHandle ==
    (pc = "rebuilding" /\ todo # <<>>) =>
       LET c == Head(todo)
       IN  /\ c[1] = "create" => objects[c[2]] # "live"
           /\ Destroys(c) => objects[c[2]] = "live"

\* C39: right after creation every slot fence is signaled and every
\* ImageFence entry is unset, so the first begin_frame on each slot finds its
\* fence signaled with no submission on that fence behind it, and the first
\* frame finds the entry of its image unset
FirstFramesNeverBlock ==
    /\ frame_no = 0 =>
          /\ \A f \in Slots : fence_signaled[f]
          /\ \A i \in DOMAIN textures_in_flight : textures_in_flight[i] = 0
    /\ (pc = "bf_fence" /\ frame_no <= MAX_FRAMES_IN_FLIGHT) =>
          /\ SlotFenceReady
          /\ \A k \in DOMAIN gfx_queue : gfx_queue[k].fence # in_flight_fence
    /\ (pc = "bf_image" /\ frame_no = 1) => textures_in_flight[swap_index] = 0

\* C39 witness: the first frame on the last slot has passed its fence wait
\* while the submission of an earlier frame is still on the queue
LastSlotStartedUnblocked ==
    /\ frame_no = MAX_FRAMES_IN_FLIGHT
    /\ pc = "bf_image"
    /\ in_flight_fence = MAX_FRAMES_IN_FLIGHT
    /\ gfx_queue # <<>>

\* C40: at creation and after every rebuild, no two image indices share a
\* command pool or a command buffer
PoolAndBufferPerImage ==
    \A owner \in DOMAIN command_buffers :
       \A i, j \in DOMAIN command_buffers[owner] :
          i # j =>
             /\ command_buffers[owner][i].pool # command_buffers[owner][j].pool
             /\ command_buffers[owner][i].buffer # command_buffers[owner][j].buffer

====
